---- MODULE Spec2Model ----
(***************************************************************************)
(* Reservation lifecycle of dev-reserve-server: the Environments and       *)
(* Reservations tables, the request handlers that reserve and release an   *)
(* environment, and the background goroutine that checks for expired       *)
(* reservations.  Every action is one access to shared state (a DynamoDB   *)
(* call or a reading of the clock) together with the local computation     *)
(* that follows it, so that concurrent requests interleave as they do on   *)
(* the server.                                                             *)
(*                                                                         *)
(* Time is counted in ticks.  time.Time values held in memory keep their   *)
(* sub-second part; the strings stored in the tables are modelled as       *)
(* [sec, frac] with frac = 0 standing for "no fractional part printed",    *)
(* which is what time.RFC3339 always prints and what time.RFC3339Nano      *)
(* prints for a whole second.                                              *)
(***************************************************************************)
EXTENDS Integers, Sequences, FiniteSets, TLC

\* ---------------------------------------------------------------- bounds
TicksPerSecond == 2       \* the clock's resolution
MaxReservations == 3      \* records the Reservations table may hold
MaxSubTicks == 2          \* single ticks the clock makes between long jumps
MaxJumps == 2             \* long jumps the clock makes

\* ------------------------------------------------------- program constants
SecondsPerMinute == 60
TicksPerMinute == TicksPerSecond * SecondsPerMinute
MinDurationMins == 10
MaxDurationMins == 4320
StatusFree == "FREE"
StatusReserved == "RESERVED"
RoleUser == "USER"
RoleAdmin == "ADMIN"

\* ------------------------------------------------------------ input sets
Procs == {"p1", "p2"}
Users == {"alice", "bob"}
RoleOf == [u \in Users |-> IF u = "bob" THEN RoleAdmin ELSE RoleUser]
EnvIdInputs == {"", "env-1", "env-9"}
NameInputs == {"", "staging"}
DurationInputs == {9, 10, 4320, 4321}
FeatureInputs == {"", "login-flow"}
Zones == {"Z", "+"}
LongJump == MinDurationMins * TicksPerMinute - 1
ClockSteps == {1, LongJump}
PoolIds == {"env-1", "env-2"}
MaxNow == MaxJumps * LongJump + MaxSubTicks

VARIABLES
    now,           \* the wall clock, in ticks
    zone,          \* the zone suffix time.Now() prints on this host
    environments,  \* Environments table: id -> [status, createdBy]
    reservations,  \* Reservations table: the i-th record has id i
    pc, req, localNow,             \* request goroutines
    resp,          \* the response written by the last step, if it wrote one
    spc, activeReservations        \* the expiry goroutine

vars == <<now, zone, environments, reservations, pc, req, localNow, resp,
          spc, activeReservations>>

procVars == <<pc, req, localNow>>
sweepVars == <<spc, activeReservations>>
tableVars == <<environments, reservations>>

\* ------------------------------------------------------- time and strings
Minutes(d) == d * TicksPerMinute

\* t.Format(time.RFC3339): whole seconds only.
FormatRFC3339(t) == [sec |-> t \div TicksPerSecond, frac |-> 0]

\* dynamodbattribute marshals a time.Time field with time.RFC3339Nano.
FormatRFC3339Nano(t) == [sec |-> t \div TicksPerSecond, frac |-> t % TicksPerSecond]

\* dynamodbattribute unmarshals the string back into a time.Time.
ParseTime(s) == s.sec * TicksPerSecond + s.frac

CharCode(c) == CASE c = "+" -> 43 [] c = "-" -> 45 [] c = "." -> 46 [] c = "Z" -> 90

\* DynamoDB compares S attributes byte by byte.  Both strings have the same
\* digits up to the seconds; the next byte is "." when a fraction is printed
\* and the first byte of the zone suffix otherwise.
StringGreaterThan(a, b, z) ==
    IF a.sec # b.sec THEN a.sec > b.sec
    ELSE IF a.frac > 0 /\ b.frac > 0 THEN a.frac > b.frac
    ELSE IF a.frac > 0 THEN CharCode(".") > CharCode(z)
    ELSE IF b.frac > 0 THEN CharCode(z) > CharCode(".")
    ELSE FALSE

\* now.After(t)
After(t1, t2) == t1 > t2

\* ------------------------------------------------------------- responses
\* listed is the result of the request's scan of the Environments table, the
\* status of each environment it returned.
NoReq == [op |-> "", environmentId |-> "", username |-> "", durationMins |-> 0,
          feature |-> "", id |-> 0, listed |-> <<>>]

\* data is the set of reservation ids of the records a response carries.
NoResp == [proc |-> "", req |-> NoReq, status |-> 0, error |-> "", data |-> {}]
Success == [status |-> 200, error |-> "", data |-> {}]
SuccessWith(ids) == [status |-> 200, error |-> "", data |-> ids]
Error(code, msg) == [status |-> code, error |-> msg, data |-> {}]

\* ---------------------------------------------------------------- tables
EnvIds == DOMAIN environments
ResIds == 1..Len(reservations)

Init ==
    /\ now = 0
    /\ zone \in Zones
    /\ environments = <<>>
    /\ reservations = <<>>
    /\ pc = [p \in Procs |-> "idle"]
    /\ req = [p \in Procs |-> NoReq]
    /\ localNow = [p \in Procs |-> 0]
    /\ resp = NoResp
    /\ spc = "wait"
    /\ activeReservations = {}

\* utils.RespondWithError / RespondWithSuccess: the request r of goroutine p
\* is answered with o and the goroutine ends.
Respond(p, r, o) ==
    /\ pc' = [pc EXCEPT ![p] = "idle"]
    /\ req' = [req EXCEPT ![p] = NoReq]
    /\ localNow' = [localNow EXCEPT ![p] = 0]
    /\ resp' = [proc |-> p, req |-> r, status |-> o.status, error |-> o.error,
                data |-> o.data]

\* The request goes on to its next step; t is the time it carries.
Goto(p, label, r, t) ==
    /\ pc' = [pc EXCEPT ![p] = label]
    /\ req' = [req EXCEPT ![p] = r]
    /\ localNow' = [localNow EXCEPT ![p] = t]
    /\ resp' = NoResp

\* ------------------------------------------------------------- the clock
Advance(d) ==
    /\ now + d <= MaxNow
    /\ d = 1 => (now % LongJump) < MaxSubTicks
    /\ now' = now + d
    /\ resp' = NoResp
    /\ UNCHANGED <<zone, tableVars, procVars, sweepVars>>

\* ---------------------------------------------------- POST /admin/environments
CreateReq(u, name) == [NoReq EXCEPT !.op = "CreateEnvironment", !.username = u, !.feature = name]

\* Variant: the new environment is stored as RESERVED.
CreateEnvironment_Reserved(p, u, name, uuid) ==
    /\ pc[p] = "idle"
    /\ uuid \notin EnvIds
    /\ IF RoleOf[u] # RoleAdmin
         THEN /\ Respond(p, CreateReq(u, name), Error(403, "Admin access required"))
              /\ UNCHANGED environments
       ELSE IF name = ""
         THEN /\ Respond(p, CreateReq(u, name), Error(400, "Environment name is required"))
              /\ UNCHANGED environments
       ELSE /\ environments' = [i \in EnvIds \cup {uuid} |->
                                  IF i = uuid
                                    THEN [status |-> StatusReserved, createdBy |-> u]
                                    ELSE environments[i]]
            /\ Respond(p, CreateReq(u, name), Success)
    /\ UNCHANGED <<now, zone, reservations, sweepVars>>

\* uuid is what uuid.New() returns: an id no environment has.
CreateEnvironment(p, u, name, uuid) ==
    /\ pc[p] = "idle"
    /\ uuid \notin EnvIds
    /\ IF RoleOf[u] # RoleAdmin
         THEN /\ Respond(p, CreateReq(u, name), Error(403, "Admin access required"))
              /\ UNCHANGED environments
       ELSE IF name = ""
         THEN /\ Respond(p, CreateReq(u, name), Error(400, "Environment name is required"))
              /\ UNCHANGED environments
       ELSE /\ environments' = [i \in EnvIds \cup {uuid} |->
                                  IF i = uuid
                                    THEN [status |-> StatusFree, createdBy |-> u]
                                    ELSE environments[i]]
            /\ Respond(p, CreateReq(u, name), Success)
    /\ UNCHANGED <<now, zone, reservations, sweepVars>>

\* ------------------------------------------------------ POST /reservations
\* Variant: the lower bound is taken as exclusive.
ValidationError_OffByOne(e, d, f) ==
    IF e = "" THEN "Environment ID is required"
    ELSE IF d <= MinDurationMins THEN "Duration must be at least 10 minutes"
    ELSE IF d > MaxDurationMins THEN "Duration cannot exceed 3 days (4320 minutes)"
    ELSE IF f = "" THEN "Feature description is required"
    ELSE ""

\* Variant: the feature is not checked.
ValidationError_NoFeature(e, d, f) ==
    IF e = "" THEN "Environment ID is required"
    ELSE IF d < MinDurationMins THEN "Duration must be at least 10 minutes"
    ELSE IF d > MaxDurationMins THEN "Duration cannot exceed 3 days (4320 minutes)"
    ELSE ""

\* The handler's checks of the request body, in the order of the code.
ValidationError(e, d, f) ==
    IF e = "" THEN "Environment ID is required"
    ELSE IF d < MinDurationMins THEN "Duration must be at least 10 minutes"
    ELSE IF d > MaxDurationMins THEN "Duration cannot exceed 3 days (4320 minutes)"
    ELSE IF f = "" THEN "Feature description is required"
    ELSE ""

\* Variant: the Update carries no condition on the status.
ConditionHolds_NoCheck(e) == e \in EnvIds

\* The condition "#status = :expectedStatus" of the transaction's Update,
\* evaluated by the store when the transaction commits.
ConditionHolds(e) == e \in EnvIds /\ environments[e].status = StatusFree

\* Variant: the end time ignores the requested duration.
NewReservation_FixedEnd(r, start) ==
    [environmentId |-> r.environmentId,
     username |-> r.username,
     startTime |-> FormatRFC3339Nano(start),
     endTime |-> FormatRFC3339Nano(start + Minutes(MinDurationMins))]

\* The Reservations item the handler builds and the repository puts.
NewReservation(r, start) ==
    [environmentId |-> r.environmentId,
     username |-> r.username,
     startTime |-> FormatRFC3339Nano(start),
     endTime |-> FormatRFC3339Nano(start + Minutes(r.durationMins))]

ReserveReq(e, u, d, f) ==
    [NoReq EXCEPT !.op = "Reserve", !.environmentId = e, !.username = u,
                  !.durationMins = d, !.feature = f]

\* Variant: the handler leaves the status to the repository.
ReserveStart_NoStatusCheck(p, e, u, d, f) ==
    /\ pc[p] = "idle"
    /\ LET r == ReserveReq(e, u, d, f)
       IN IF ValidationError(e, d, f) # ""
            THEN Respond(p, r, Error(400, ValidationError(e, d, f)))
          ELSE IF e \notin EnvIds
            THEN Respond(p, r, Error(404, "Environment not found"))
          ELSE Goto(p, "reserve_get", r, now)
    /\ UNCHANGED <<now, zone, tableVars, sweepVars>>

\* Variant: the handler leaves the lookup to the repository.
ReserveStart_NoLookup(p, e, u, d, f) ==
    /\ pc[p] = "idle"
    /\ LET r == ReserveReq(e, u, d, f)
       IN IF ValidationError(e, d, f) # ""
            THEN Respond(p, r, Error(400, ValidationError(e, d, f)))
          ELSE IF e \notin EnvIds
            THEN Goto(p, "reserve_get", r, now)
          ELSE IF environments[e].status # StatusFree
            THEN Respond(p, r, Error(400, "Environment is already reserved"))
          ELSE Goto(p, "reserve_get", r, now)
    /\ UNCHANGED <<now, zone, tableVars, sweepVars>>

\* Variant: the handler looks the environment up before it checks the body.
ReserveStart_LookupFirst(p, e, u, d, f) ==
    /\ pc[p] = "idle"
    /\ LET r == ReserveReq(e, u, d, f)
       IN IF e \notin EnvIds
            THEN Respond(p, r, Error(404, "Environment not found"))
          ELSE IF environments[e].status # StatusFree
            THEN Respond(p, r, Error(400, "Environment is already reserved"))
          ELSE IF ValidationError(e, d, f) # ""
            THEN Respond(p, r, Error(400, ValidationError(e, d, f)))
          ELSE Goto(p, "reserve_get", r, now)
    /\ UNCHANGED <<now, zone, tableVars, sweepVars>>

\* ReservationHandler.CreateReservation: the checks of the body, its
\* GetEnvironment, and now := time.Now(), the reservation's start time.
ReserveStart(p, e, u, d, f) ==
    /\ pc[p] = "idle"
    /\ LET r == ReserveReq(e, u, d, f)
       IN IF ValidationError(e, d, f) # ""
            THEN Respond(p, r, Error(400, ValidationError(e, d, f)))
          ELSE IF e \notin EnvIds
            THEN Respond(p, r, Error(404, "Environment not found"))
          ELSE IF environments[e].status # StatusFree
            THEN Respond(p, r, Error(400, "Environment is already reserved"))
          ELSE Goto(p, "reserve_get", r, now)
    /\ UNCHANGED <<now, zone, tableVars, sweepVars>>

\* ReservationRepository.CreateReservation: its own GetEnvironment.
ReserveGet(p) ==
    /\ pc[p] = "reserve_get"
    /\ LET e == req[p].environmentId
       IN IF e \notin EnvIds
            THEN Respond(p, req[p], Error(500, "environment not found"))
          ELSE IF environments[e].status # StatusFree
            THEN Respond(p, req[p], Error(500, "environment is already reserved"))
          ELSE Goto(p, "reserve_commit", req[p], localNow[p])
    /\ UNCHANGED <<now, zone, tableVars, sweepVars>>

\* Variant: the Put and the Update are two writes, not one transaction.
ReserveCommit_TwoWrites(p) ==
    /\ pc[p] = "reserve_commit"
    /\ Len(reservations) < MaxReservations
    /\ reservations' = Append(reservations, NewReservation(req[p], localNow[p]))
    /\ LET e == req[p].environmentId
       IN IF ConditionHolds(e)
            THEN /\ environments' = [environments EXCEPT ![e].status = StatusReserved]
                 /\ Respond(p, req[p], Success)
          ELSE /\ UNCHANGED environments
               /\ Respond(p, req[p], Error(500, "failed to create reservation"))
    /\ UNCHANGED <<now, zone, sweepVars>>

\* TransactWriteItems{Put reservation, Update environment if status = FREE}.
ReserveCommit(p) ==
    /\ pc[p] = "reserve_commit"
    /\ LET e == req[p].environmentId
       IN IF ConditionHolds(e)
            THEN /\ Len(reservations) < MaxReservations
                 /\ reservations' = Append(reservations, NewReservation(req[p], localNow[p]))
                 /\ environments' = [environments EXCEPT ![e].status = StatusReserved]
                 /\ Respond(p, req[p], Success)
          ELSE /\ UNCHANGED tableVars
               /\ Respond(p, req[p], Error(500, "failed to create reservation"))
    /\ UNCHANGED <<now, zone, sweepVars>>

\* ------------------------------------------ POST /reservations/{id}/release
ReleaseReq(id, u) == [NoReq EXCEPT !.op = "Release", !.id = id, !.username = u]

\* Variant: an administrator passes the ownership check.
ReleaseGet_AdminOverride(p, id, u) ==
    /\ pc[p] = "idle"
    /\ IF id \notin ResIds
         THEN Respond(p, ReleaseReq(id, u), Error(500, "reservation not found"))
       ELSE IF reservations[id].username # u /\ RoleOf[u] # RoleAdmin
         THEN Respond(p, ReleaseReq(id, u),
                      Error(500, "you can only release your own reservations"))
       ELSE Goto(p, "release_commit",
                 [ReleaseReq(id, u) EXCEPT
                    !.environmentId = reservations[id].environmentId], now)
    /\ UNCHANGED <<now, zone, tableVars, sweepVars>>

\* Variant: a reservation that is over cannot be released.
ReleaseGet_OnlyActive(p, id, u) ==
    /\ pc[p] = "idle"
    /\ IF id \notin ResIds
         THEN Respond(p, ReleaseReq(id, u), Error(500, "reservation not found"))
       ELSE IF reservations[id].username # u
         THEN Respond(p, ReleaseReq(id, u),
                      Error(500, "you can only release your own reservations"))
       ELSE IF ~StringGreaterThan(reservations[id].endTime, FormatRFC3339(now), zone)
         THEN Respond(p, ReleaseReq(id, u), Error(500, "reservation is not active"))
       ELSE Goto(p, "release_commit",
                 [ReleaseReq(id, u) EXCEPT
                    !.environmentId = reservations[id].environmentId], now)
    /\ UNCHANGED <<now, zone, tableVars, sweepVars>>

\* Variant: a reservation id that names no record is answered as released.
ReleaseGet_NoLookup(p, id, u) ==
    /\ pc[p] = "idle"
    /\ IF id \notin ResIds
         THEN Respond(p, ReleaseReq(id, u), Success)
       ELSE IF reservations[id].username # u
         THEN Respond(p, ReleaseReq(id, u),
                      Error(500, "you can only release your own reservations"))
       ELSE Goto(p, "release_commit",
                 [ReleaseReq(id, u) EXCEPT
                    !.environmentId = reservations[id].environmentId], now)
    /\ UNCHANGED <<now, zone, tableVars, sweepVars>>

\* ReservationRepository.ReleaseReservation: GetReservation, the checks, and
\* time.Now() for the transaction's items.
ReleaseGet(p, id, u) ==
    /\ pc[p] = "idle"
    /\ IF id \notin ResIds
         THEN Respond(p, ReleaseReq(id, u), Error(500, "reservation not found"))
       ELSE IF reservations[id].username # u
         THEN Respond(p, ReleaseReq(id, u),
                      Error(500, "you can only release your own reservations"))
       ELSE Goto(p, "release_commit",
                 [ReleaseReq(id, u) EXCEPT
                    !.environmentId = reservations[id].environmentId], now)
    /\ UNCHANGED <<now, zone, tableVars, sweepVars>>

\* Variant: only the reservation is updated.
ReleaseCommit_EndTimeOnly(p) ==
    /\ pc[p] = "release_commit"
    /\ reservations' = [reservations EXCEPT ![req[p].id].endTime = FormatRFC3339(localNow[p])]
    /\ Respond(p, req[p], Success)
    /\ UNCHANGED <<now, zone, environments, sweepVars>>

\* Variant: the transaction frees the environment only if it is RESERVED.
ReleaseCommit_Conditional(p) ==
    /\ pc[p] = "release_commit"
    /\ IF environments[req[p].environmentId].status = StatusReserved
         THEN /\ reservations' = [reservations EXCEPT
                                    ![req[p].id].endTime = FormatRFC3339(localNow[p])]
              /\ environments' = [environments EXCEPT
                                    ![req[p].environmentId].status = StatusFree]
              /\ Respond(p, req[p], Success)
       ELSE /\ UNCHANGED tableVars
            /\ Respond(p, req[p], Error(500, "failed to release reservation"))
    /\ UNCHANGED <<now, zone, sweepVars>>

\* Variant: the transaction also restarts the reservation at the release.
ReleaseCommit_ResetsStart(p) ==
    /\ pc[p] = "release_commit"
    /\ reservations' = [reservations EXCEPT
                          ![req[p].id].endTime = FormatRFC3339(localNow[p]),
                          ![req[p].id].startTime = FormatRFC3339(localNow[p])]
    /\ environments' = [environments EXCEPT ![req[p].environmentId].status = StatusFree]
    /\ Respond(p, req[p], Success)
    /\ UNCHANGED <<now, zone, sweepVars>>

\* Variant: the transaction frees every environment.
ReleaseCommit_FreesAll(p) ==
    /\ pc[p] = "release_commit"
    /\ reservations' = [reservations EXCEPT ![req[p].id].endTime = FormatRFC3339(localNow[p])]
    /\ environments' = [e \in EnvIds |-> [environments[e] EXCEPT !.status = StatusFree]]
    /\ Respond(p, req[p], Success)
    /\ UNCHANGED <<now, zone, sweepVars>>

\* TransactWriteItems{Update reservation endTime, Update environment status},
\* neither with a condition.
ReleaseCommit(p) ==
    /\ pc[p] = "release_commit"
    /\ reservations' = [reservations EXCEPT ![req[p].id].endTime = FormatRFC3339(localNow[p])]
    /\ environments' = [environments EXCEPT ![req[p].environmentId].status = StatusFree]
    /\ Respond(p, req[p], Success)
    /\ UNCHANGED <<now, zone, sweepVars>>

\* ------------------------------------------------- the expiry goroutine
\* ListActiveReservations: the scan with the filter endTime > :now.
ListActive(t) ==
    {i \in ResIds : StringGreaterThan(reservations[i].endTime, FormatRFC3339(t), zone)}

\* What the loop of CheckExpiredReservations reads of a listed reservation.
Snapshot(ids) ==
    {[environmentId |-> reservations[i].environmentId,
      endTime |-> reservations[i].endTime] : i \in ids}

\* A tick: CheckExpiredReservations starts with ListActiveReservations.
SweepList ==
    /\ spc = "wait"
    /\ activeReservations' = Snapshot(ListActive(now))
    /\ spc' = "now"
    /\ resp' = NoResp
    /\ UNCHANGED <<now, zone, tableVars, procVars>>

\* The reservations of the list that the loop finds expired.
Expired(list, t) == {r \in list : After(t, ParseTime(r.endTime))}

\* now := time.Now(); the loop passes over the reservations of the list
\* that now is not after.
SweepNow ==
    /\ spc = "now"
    /\ activeReservations' = Expired(activeReservations, now)
    /\ spc' = IF activeReservations' = {} THEN "wait" ELSE "update"
    /\ resp' = NoResp
    /\ UNCHANGED <<now, zone, tableVars, procVars>>

\* Variant: the expiry goroutine marks the environment EXPIRED.
UpdateEnvironmentStatus_Expired(id, status) ==
    /\ id \in EnvIds
    /\ environments' = [environments EXCEPT ![id].status = "EXPIRED"]

\* Variant: the update expects the environment to be RESERVED.
UpdateEnvironmentStatus_ExpectReserved(id, status) ==
    /\ id \in EnvIds
    /\ environments[id].status = StatusReserved
    /\ environments' = [environments EXCEPT ![id].status = status]

\* UpdateEnvironmentStatus(id, status): UpdateItem with the condition
\* attribute_exists(id).
UpdateEnvironmentStatus(id, status) ==
    /\ id \in EnvIds
    /\ environments' = [environments EXCEPT ![id].status = status]

\* Variant: the loop also closes the records of the expired reservation.
SweepUpdate_ClosesRecord ==
    /\ spc = "update"
    /\ \E r \in activeReservations :
         /\ UpdateEnvironmentStatus(r.environmentId, StatusFree)
         /\ reservations' =
              [i \in ResIds |->
                 IF /\ reservations[i].environmentId = r.environmentId
                    /\ reservations[i].endTime = r.endTime
                   THEN [reservations[i] EXCEPT !.endTime = FormatRFC3339(now)]
                 ELSE reservations[i]]
         /\ activeReservations' = activeReservations \ {r}
    /\ spc' = IF activeReservations' = {} THEN "wait" ELSE "update"
    /\ resp' = NoResp
    /\ UNCHANGED <<now, zone, procVars>>

\* The loop's body for one expired reservation of the list.
SweepUpdate ==
    /\ spc = "update"
    /\ \E r \in activeReservations :
         /\ UpdateEnvironmentStatus(r.environmentId, StatusFree)
         /\ activeReservations' = activeReservations \ {r}
    /\ spc' = IF activeReservations' = {} THEN "wait" ELSE "update"
    /\ resp' = NoResp
    /\ UNCHANGED <<now, zone, reservations, procVars>>

\* The UpdateItem of UpdateEnvironmentStatus fails in the store:
\* CheckExpiredReservations returns the error, and with it the rest of its
\* list; r is the reservation whose environment was being updated.
SweepUpdateFails ==
    /\ spc = "update"
    /\ \E r \in activeReservations : activeReservations' = {r}
    /\ spc' = "failed"
    /\ resp' = NoResp
    /\ UNCHANGED <<now, zone, tableVars, procVars>>

\* main's goroutine logs the error of the cycle and waits for the next tick.
SweepLogError ==
    /\ spc = "failed"
    /\ activeReservations' = {}
    /\ spc' = "wait"
    /\ resp' = NoResp
    /\ UNCHANGED <<now, zone, tableVars, procVars>>

\* ------------------------------------------------------ GET /reservations
\* ReservationHandler.GetActiveReservations: one ListActiveReservations,
\* whose records are the response.
GetActiveReservations(p) ==
    /\ pc[p] = "idle"
    /\ Respond(p, [NoReq EXCEPT !.op = "GetActiveReservations"], SuccessWith(ListActive(now)))
    /\ UNCHANGED <<now, zone, tableVars, sweepVars>>

\* ------------------------------------------------ GET /environments/{id}
\* The reservations of environment e that the scan with the filter
\* environmentId = e AND endTime > :now returns.
ActiveByEnvironmentID(e, t) == {i \in ListActive(t) : reservations[i].environmentId = e}

\* EnvironmentHandler.GetEnvironment: envRepo.GetEnvironment.
GetEnvironmentStart(p, id) ==
    /\ pc[p] = "idle"
    /\ LET r == [NoReq EXCEPT !.op = "GetEnvironment", !.environmentId = id]
       IN IF id \notin EnvIds
            THEN Respond(p, r, Error(404, "Environment not found"))
          ELSE Goto(p, "getenv_scan", r, 0)
    /\ UNCHANGED <<now, zone, tableVars, sweepVars>>

\* GetActiveReservationByEnvironmentID: the first item of the scan, in
\* whatever order the scan returns its items, is the current reservation.
GetEnvironmentScan(p) ==
    /\ pc[p] = "getenv_scan"
    /\ LET found == ActiveByEnvironmentID(req[p].environmentId, now)
       IN \E d \in (IF found = {} THEN {{}} ELSE {{i} : i \in found}) :
            Respond(p, req[p], SuccessWith(d))
    /\ UNCHANGED <<now, zone, tableVars, sweepVars>>

\* ----------------------------------------------------- GET /environments
\* EnvironmentHandler.ListEnvironments: envRepo.ListEnvironments, the scan
\* of the Environments table.
ListEnvironmentsStart(p) ==
    /\ pc[p] = "idle"
    /\ Goto(p, "listenv_scan",
            [NoReq EXCEPT !.op = "ListEnvironments",
                          !.listed = [e \in EnvIds |-> environments[e].status]], 0)
    /\ UNCHANGED <<now, zone, tableVars, sweepVars>>

\* ListActiveReservations and the reservationMap: of the listed
\* reservations of one environment the map keeps one, the last of the scan;
\* the result attaches it to the environment as the first scan returned it.
ListEnvironmentsScan(p) ==
    /\ pc[p] = "listenv_scan"
    /\ \E d \in SUBSET {i \in ListActive(now) :
                           reservations[i].environmentId \in DOMAIN req[p].listed} :
         /\ \A e \in DOMAIN req[p].listed :
              Cardinality({i \in d : reservations[i].environmentId = e}) =
                IF ActiveByEnvironmentID(e, now) = {} THEN 0 ELSE 1
         /\ Respond(p, req[p], SuccessWith(d))
    /\ UNCHANGED <<now, zone, tableVars, sweepVars>>

\* ------------------------------------------------------------------ Next
\* Concurrent requests of well-formed clients, the expiry goroutine and the
\* clock.  A request that fails validation, names no record or comes from
\* another user is answered in its first step without a write; NextSeq and
\* NextInputs draw those.
Next ==
    \/ Advance(LongJump)
    \/ \E p \in Procs : CreateEnvironment(p, "bob", "staging", "env-1")
    \/ \E p \in Procs, e \in EnvIds : ReserveStart(p, e, "alice", MinDurationMins, "login-flow")
    \/ \E p \in Procs : ReserveGet(p)
    \/ \E p \in Procs : ReserveCommit(p)
    \/ \E p \in Procs, id \in ResIds : ReleaseGet(p, id, reservations[id].username)
    \/ \E p \in Procs : ReleaseCommit(p)
    \/ SweepList
    \/ SweepNow
    \/ SweepUpdate

Spec == Init /\ [][Next]_vars

\* One request at a time, from any user, on any environment and for any
\* reservation id.
NextSeq ==
    \/ Advance(LongJump)
    \/ CreateEnvironment("p1", "bob", "staging", "env-1")
    \/ \E e \in EnvIds, u \in Users : ReserveStart("p1", e, u, MinDurationMins, "login-flow")
    \/ ReserveGet("p1")
    \/ ReserveCommit("p1")
    \/ \E id \in 1..(Len(reservations) + 1), u \in Users : ReleaseGet("p1", id, u)
    \/ ReleaseCommit("p1")
    \/ SweepList
    \/ SweepNow
    \/ SweepUpdate

SeqSpec == Init /\ [][NextSeq]_vars

\* One request at a time with every kind of request body.
NextInputs ==
    \/ Advance(LongJump)
    \/ \E u \in Users, n \in NameInputs : CreateEnvironment("p1", u, n, "env-1")
    \/ \E e \in EnvIdInputs, u \in Users, d \in DurationInputs, f \in FeatureInputs :
          ReserveStart("p1", e, u, d, f)
    \/ ReserveGet("p1")
    \/ ReserveCommit("p1")

InputSpec == Init /\ [][NextInputs]_vars

\* Reserve requests racing for the environments, with nothing to free one.
NextRace ==
    \/ \E d \in ClockSteps : Advance(d)
    \/ \E p \in Procs : CreateEnvironment(p, "bob", "staging", "env-1")
    \/ \E p \in Procs, e \in EnvIds, u \in Users :
          ReserveStart(p, e, u, MinDurationMins, "login-flow")
    \/ \E p \in Procs : ReserveGet(p)
    \/ \E p \in Procs : ReserveCommit(p)

RaceSpec == Init /\ [][NextRace]_vars

\* Operations that do not overlap: a request starts when no cycle of the
\* expiry goroutine is under way, a cycle starts when no request is, and
\* the clock advances between the steps of a cycle but not of a request.
NextSteps ==
    \/ pc["p1"] = "idle" /\ Advance(LongJump)
    \/ spc = "wait" /\ CreateEnvironment("p1", "bob", "staging", "env-1")
    \/ spc = "wait" /\ \E e \in EnvIds, u \in Users :
                          ReserveStart("p1", e, u, MinDurationMins, "login-flow")
    \/ ReserveGet("p1")
    \/ ReserveCommit("p1")
    \/ spc = "wait" /\ \E id \in ResIds : ReleaseGet("p1", id, reservations[id].username)
    \/ ReleaseCommit("p1")
    \/ pc["p1"] = "idle" /\ SweepList
    \/ SweepNow
    \/ SweepUpdate

StepSpec == Init /\ [][NextSteps]_vars

\* One request at a time on a clock that also moves by single ticks, among
\* them the reading of the active reservations.
NextRead ==
    \/ \E d \in ClockSteps : Advance(d)
    \/ CreateEnvironment("p1", "bob", "staging", "env-1")
    \/ \E e \in EnvIds : ReserveStart("p1", e, "alice", MinDurationMins, "login-flow")
    \/ ReserveGet("p1")
    \/ ReserveCommit("p1")
    \/ \E id \in ResIds : ReleaseGet("p1", id, reservations[id].username)
    \/ ReleaseCommit("p1")
    \/ GetActiveReservations("p1")
    \/ \E id \in EnvIdInputs \ {""} : GetEnvironmentStart("p1", id)
    \/ GetEnvironmentScan("p1")
    \/ ListEnvironmentsStart("p1")
    \/ ListEnvironmentsScan("p1")

ReadSpec == Init /\ [][NextRead]_vars

\* Two environments, one request at a time, and a store that may fail the
\* status updates of the expiry goroutine.
NextPool ==
    \/ Advance(LongJump)
    \/ \E u \in Users, uuid \in PoolIds : CreateEnvironment("p1", u, "staging", uuid)
    \/ \E e \in EnvIds : ReserveStart("p1", e, "alice", MinDurationMins, "login-flow")
    \/ ReserveGet("p1")
    \/ ReserveCommit("p1")
    \/ SweepList
    \/ SweepNow
    \/ SweepUpdate
    \/ SweepUpdateFails
    \/ SweepLogError

PoolSpec == Init /\ [][NextPool]_vars

\* PoolSpec with the ticker firing again and again, every cycle and every
\* request running to its end; nothing says that the store ever succeeds.
FairPoolSpec ==
    /\ PoolSpec
    /\ WF_vars(SweepList) /\ WF_vars(SweepNow) /\ WF_vars(SweepLogError)
    /\ WF_vars(ReserveGet("p1")) /\ WF_vars(ReserveCommit("p1"))

\* Two environments, one request at a time, with the expiry goroutine.
NextPair ==
    \/ Advance(LongJump)
    \/ \E uuid \in PoolIds : CreateEnvironment("p1", "bob", "staging", uuid)
    \/ \E e \in EnvIds : ReserveStart("p1", e, "alice", MinDurationMins, "login-flow")
    \/ ReserveGet("p1")
    \/ ReserveCommit("p1")
    \/ \E id \in ResIds : ReleaseGet("p1", id, reservations[id].username)
    \/ ReleaseCommit("p1")
    \/ SweepList
    \/ SweepNow
    \/ SweepUpdate

PairSpec == Init /\ [][NextPair]_vars

\* A request that lists the environments beside a request that reserves or
\* releases one.
NextListRace ==
    \/ CreateEnvironment("p1", "bob", "staging", "env-1")
    \/ \E e \in EnvIds : ReserveStart("p2", e, "alice", MinDurationMins, "login-flow")
    \/ ReserveGet("p2")
    \/ ReserveCommit("p2")
    \/ \E id \in ResIds : ReleaseGet("p2", id, reservations[id].username)
    \/ ReleaseCommit("p2")
    \/ ListEnvironmentsStart("p1")
    \/ ListEnvironmentsScan("p1")

ListRaceSpec == Init /\ [][NextListRace]_vars

\* One request at a time with every kind of Reserve body and, for Release,
\* every reservation id and requester; the clock stands still, since none of
\* the checks reads it.
NextPrecedence ==
    \/ CreateEnvironment("p1", "bob", "staging", "env-1")
    \/ \E e \in EnvIdInputs, u \in Users, d \in DurationInputs, f \in FeatureInputs :
          ReserveStart("p1", e, u, d, f)
    \/ ReserveGet("p1")
    \/ ReserveCommit("p1")
    \/ \E id \in 1..(Len(reservations) + 1), u \in Users : ReleaseGet("p1", id, u)
    \/ ReleaseCommit("p1")

PrecedenceSpec == Init /\ [][NextPrecedence]_vars

\* The ticker fires every minute, each cycle runs to its end, and a request
\* that has started runs to its answer.
FairSpec ==
    /\ Spec
    /\ WF_vars(SweepList) /\ WF_vars(SweepNow) /\ WF_vars(SweepUpdate)
    /\ WF_vars(\E p \in Procs : ReserveGet(p))
    /\ WF_vars(\E p \in Procs : ReserveCommit(p))
    /\ WF_vars(\E p \in Procs : ReleaseCommit(p))

\* ---------------------------------------------------------------- claims
\* A reservation is active when its end time is after the current time.
IsActive(i) == ParseTime(reservations[i].endTime) > now
ReservationsOf(e) == {i \in ResIds : reservations[i].environmentId = e}
ActiveOf(e) == {i \in ReservationsOf(e) : IsActive(i)}

\* C1: every environment is referenced by at most one reservation whose
\* endTime is greater than the current time.
C1_MutualExclusion == \A e \in EnvIds : Cardinality(ActiveOf(e)) <= 1

\* C3: once the end time of the reservations of an environment has passed
\* and nothing holds it any more, the environment eventually has status
\* FREE, the expiry goroutine being scheduled again and again.
Lapsed(e) ==
    /\ e \in EnvIds
    /\ environments[e].status = StatusReserved
    /\ ReservationsOf(e) # {}
    /\ ActiveOf(e) = {}
C3_AutomaticReclamation ==
    \A e \in {"env-1"} : Lapsed(e) ~> (e \in EnvIds /\ environments[e].status = StatusFree)

\* C4: an environment's status is RESERVED if and only if a reservation
\* with endTime > now references it, and FREE otherwise.
C4_StatusIsProjection ==
    \A e \in EnvIds : (environments[e].status = StatusReserved) <=> (ActiveOf(e) # {})

\* The step answers a request (every other step clears resp).
Answers == resp' # NoResp /\ vars' # vars
AnswersOp(op) == Answers /\ resp'.req.op = op

\* The step is the commit of p's Reserve, respectively Release.
ReserveCommits(p) == pc[p] = "reserve_commit" /\ pc'[p] = "idle"
ReleaseCommits(p) == pc[p] = "release_commit" /\ pc'[p] = "idle"

ValidationMessages ==
    {"Environment ID is required", "Duration must be at least 10 minutes",
     "Duration cannot exceed 3 days (4320 minutes)", "Feature description is required"}

\* C2: of the Reserve requests that race for one FREE environment, each
\* having read its status before any of them commits, exactly one succeeds;
\* every other one fails without a write, and after each commit the ledger
\* holds exactly one reservation of the environment.
C2_ExactlyOneWinner ==
    [][\A p \in Procs : ReserveCommits(p) =>
          LET e == req[p].environmentId
              won == environments[e].status = StatusFree
          IN /\ Cardinality({i \in 1..Len(reservations') :
                               reservations'[i].environmentId = e}) = 1
             /\ environments'[e].status = StatusReserved
             /\ won => resp'.status = 200 /\ Len(reservations') = Len(reservations) + 1
             /\ ~won => /\ resp'.status # 200
                        /\ reservations' = reservations
                        /\ environments' = environments]_vars

\* A request that lost the race at commit time, the winner's record in place.
C2_Witness ==
    /\ resp.error = "failed to create reservation"
    /\ Cardinality(ReservationsOf(resp.req.environmentId)) = 1

\* C5: a successful Reserve(e, h, d) adds, in one step, exactly one record
\* with environmentId = e, username = h, startTime = the request's now and
\* endTime = startTime + d minutes, and turns e from FREE to RESERVED; no
\* step does one of the two without the other.
C5_ReserveCommitsBoth ==
    [][LET n == Len(reservations)
           added == Len(reservations') # n
           reserved == \E e \in EnvIds : /\ environments[e].status # StatusReserved
                                         /\ environments'[e].status = StatusReserved
       IN (added \/ reserved \/ (AnswersOp("Reserve") /\ resp'.status = 200)) =>
            \E p \in Procs :
              /\ ReserveCommits(p)
              /\ resp'.proc = p /\ resp'.status = 200 /\ resp'.req = req[p]
              /\ Len(reservations') = n + 1
              /\ \A i \in 1..n : reservations'[i] = reservations[i]
              /\ reservations'[n + 1].environmentId = req[p].environmentId
              /\ reservations'[n + 1].username = req[p].username
              /\ ParseTime(reservations'[n + 1].startTime) = localNow[p]
              /\ ParseTime(reservations'[n + 1].endTime) =
                   localNow[p] + req[p].durationMins * SecondsPerMinute * TicksPerSecond
              /\ environments[req[p].environmentId].status = StatusFree
              /\ environments'[req[p].environmentId].status = StatusReserved
              /\ \A e \in EnvIds \ {req[p].environmentId} :
                   environments'[e] = environments[e]]_vars

\* A three-day reservation has just been made.
C5_Witness ==
    /\ resp.status = 200 /\ resp.req.op = "Reserve" /\ resp.req.durationMins = 4320
    /\ Len(reservations) > 0
    /\ reservations[Len(reservations)].username = resp.req.username
    /\ environments[resp.req.environmentId].status = StatusReserved

\* C6: a Reserve on an environment whose status is not FREE when the
\* request reads it or commits fails, and the failure changes nothing: no
\* record is added, the records keep their fields and the status stays.
C6_ConflictWritesNothing ==
    [][(/\ AnswersOp("Reserve")
        /\ resp'.req.environmentId \in EnvIds
        /\ environments[resp'.req.environmentId].status # StatusFree) =>
          /\ resp'.status # 200
          /\ reservations' = reservations
          /\ environments' = environments
          /\ environments'[resp'.req.environmentId].status = StatusReserved]_vars

\* A Reserve that read FREE twice and found RESERVED at commit time.
C6_Witness ==
    /\ resp.req.op = "Reserve"
    /\ resp.error = "failed to create reservation"
    /\ environments[resp.req.environmentId].status = StatusReserved

\* C7: a successful Release of x by its holder sets, in one step, x.endTime
\* to the time the request read (printed in whole seconds) and the status of
\* x's environment to FREE, so that x is not active afterwards; no step
\* changes an endTime without setting the status.
C7_ReleaseCommitsBoth ==
    [][LET changed == {i \in ResIds : reservations'[i] # reservations[i]}
       IN (changed # {} \/ (AnswersOp("Release") /\ resp'.status = 200)) =>
            \E p \in Procs :
              LET x == req[p].id
              IN /\ ReleaseCommits(p)
                 /\ resp'.proc = p /\ resp'.status = 200
                 /\ reservations[x].username = req[p].username
                 /\ changed \subseteq {x}
                 /\ Len(reservations') = Len(reservations)
                 /\ reservations'[x].endTime =
                      [sec |-> localNow[p] \div TicksPerSecond, frac |-> 0]
                 /\ ~(ParseTime(reservations'[x].endTime) > now')
                 /\ environments'[reservations[x].environmentId].status = StatusFree]_vars

\* A reservation released before its time was up.
C7_Witness ==
    /\ resp.status = 200 /\ resp.req.op = "Release"
    /\ resp.req.id \in ResIds
    /\ ParseTime(reservations[resp.req.id].endTime) <
         ParseTime(reservations[resp.req.id].startTime) + Minutes(MinDurationMins)
    /\ environments[resp.req.environmentId].status = StatusFree

\* C8: a Release of x asked by anyone but x's holder, administrators
\* included, fails with the permission error and changes nothing.
C8_OnlyHolderReleases ==
    [][(/\ AnswersOp("Release")
        /\ resp'.req.id \in ResIds
        /\ reservations[resp'.req.id].username # resp'.req.username) =>
          /\ resp'.status # 200
          /\ resp'.error = "you can only release your own reservations"
          /\ reservations' = reservations
          /\ environments' = environments]_vars

\* An administrator was refused the release of a user's active reservation.
C8_Witness ==
    /\ resp.req.op = "Release"
    /\ resp.error = "you can only release your own reservations"
    /\ RoleOf[resp.req.username] = RoleAdmin
    /\ resp.req.id \in ResIds
    /\ IsActive(resp.req.id)
    /\ environments[reservations[resp.req.id].environmentId].status = StatusReserved

\* C9: a Reserve with durationMins < 10 or > 4320 is rejected with a
\* validation error and writes nothing; one with 10 <= durationMins <= 4320
\* is not rejected for its duration.
C9_DurationBounds ==
    [][AnswersOp("Reserve") =>
         LET d == resp'.req.durationMins
         IN /\ (d < 10 \/ d > 4320) =>
                 /\ resp'.status = 400
                 /\ resp'.error \in ValidationMessages
                 /\ reservations' = reservations
                 /\ environments' = environments
            /\ (10 <= d /\ d <= 4320) =>
                 resp'.error \notin {"Duration must be at least 10 minutes",
                                     "Duration cannot exceed 3 days (4320 minutes)"}
            /\ (resp'.req.environmentId # "" /\ d = 9) =>
                 resp'.error = "Duration must be at least 10 minutes"
            /\ (resp'.req.environmentId # "" /\ d = 4321) =>
                 resp'.error = "Duration cannot exceed 3 days (4320 minutes)"]_vars

\* 4321 minutes were refused on a FREE environment.
C9_Witness ==
    /\ resp.req.op = "Reserve" /\ resp.req.durationMins = 4321
    /\ resp.error = "Duration cannot exceed 3 days (4320 minutes)"
    /\ resp.req.environmentId \in EnvIds
    /\ environments[resp.req.environmentId].status = StatusFree

\* C10: a Reserve with an empty feature or an empty environment id is
\* rejected with a validation error and leaves both tables as they were,
\* whatever the environment's status and the other arguments.
C10_RequiredFields ==
    [][(/\ AnswersOp("Reserve")
        /\ (resp'.req.feature = "" \/ resp'.req.environmentId = "")) =>
          /\ resp'.status = 400
          /\ resp'.error \in ValidationMessages
          /\ reservations' = reservations
          /\ environments' = environments]_vars

\* An empty feature was refused on a RESERVED environment.
C10_Witness ==
    /\ resp.req.op = "Reserve" /\ resp.req.feature = ""
    /\ resp.error = "Feature description is required"
    /\ resp.req.environmentId \in EnvIds
    /\ environments[resp.req.environmentId].status = StatusReserved

\* The endTime of record i is no longer the one it was created with (every
\* reservation of SeqSpec and Spec is made for MinDurationMins).
EndTimeRewritten(i) ==
    reservations[i].endTime #
      FormatRFC3339Nano(ParseTime(reservations[i].startTime) + Minutes(MinDurationMins))

\* C11: requests coming one at a time, the Reserve that follows A's
\* successful Reserve on the same environment, by another user, fails with
\* the conflict and writes nothing; the Reserve that follows A's successful
\* Release is not refused, and a Reserve that was not refused succeeds and
\* leaves the environment RESERVED.
C11_ReserveReleaseReserve ==
    [][/\ (/\ resp.status = 200 /\ resp.req.op = "Reserve"
            /\ AnswersOp("Reserve")
            /\ resp'.req.environmentId = resp.req.environmentId
            /\ resp'.req.username # resp.req.username) =>
              /\ resp'.status = 400
              /\ resp'.error = "Environment is already reserved"
              /\ reservations' = reservations
              /\ environments' = environments
       /\ (/\ resp.status = 200 /\ resp.req.op = "Release"
            /\ resp'.req.environmentId = resp.req.environmentId) =>
              ~AnswersOp("Reserve")
       /\ \A p \in Procs :
            /\ (pc[p] = "reserve_get" /\ pc'[p] # "reserve_get") =>
                  pc'[p] = "reserve_commit"
            /\ ReserveCommits(p) =>
                  /\ resp'.status = 200
                  /\ Len(reservations') = Len(reservations) + 1
                  /\ environments'[req[p].environmentId].status = StatusReserved]_vars

\* bob holds the environment that alice reserved and released before him.
C11_Witness ==
    /\ resp.status = 200 /\ resp.req.op = "Reserve" /\ resp.req.username = "bob"
    /\ Len(reservations) = 2
    /\ reservations[1].username = "alice" /\ EndTimeRewritten(1)
    /\ reservations[2].username = "bob" /\ ~EndTimeRewritten(2)
    /\ reservations[1].environmentId = reservations[2].environmentId
    /\ environments[reservations[2].environmentId].status = StatusReserved

\* C12: a Release by the holder of a record is never refused, whether the
\* record was released before or its environment is FREE already, and it
\* leaves the environment FREE; a step of the expiry goroutine writes no
\* status but FREE, so that it leaves a FREE environment FREE.
C12_ConvergenceIdempotent ==
    [][/\ (/\ AnswersOp("Release")
            /\ resp'.req.id \in ResIds
            /\ reservations[resp'.req.id].username = resp'.req.username) =>
              /\ resp'.status = 200
              /\ environments'[reservations[resp'.req.id].environmentId].status = StatusFree
       /\ \A p \in Procs : ReleaseCommits(p) =>
              /\ resp'.status = 200
              /\ environments'[req[p].environmentId].status = StatusFree
              /\ \A e \in EnvIds \ {req[p].environmentId} :
                   environments'[e] = environments[e]
       /\ (spc' # spc \/ activeReservations' # activeReservations) =>
              /\ reservations' = reservations
              /\ \A e \in EnvIds :
                   environments'[e].status \in {environments[e].status, StatusFree}]_vars

\* A Release, then a cycle of the expiry goroutine: the cycle has listed the
\* reservations after the only record was released, the environment is FREE.
C12_Witness ==
    /\ spc = "now" /\ activeReservations = {}
    /\ Len(reservations) = 1
    /\ EndTimeRewritten(1)
    /\ ParseTime(reservations[1].endTime) > ParseTime(reservations[1].startTime)
    /\ ParseTime(reservations[1].endTime) <
         ParseTime(reservations[1].startTime) + Minutes(MinDurationMins)
    /\ environments[reservations[1].environmentId].status = StatusFree

\* C13: when a cycle of the expiry goroutine ends, no environment is left
\* RESERVED whose reservations have all passed their endTime, the last of
\* them never released; and the cycle leaves every endTime as it was.
C13_SweepFreesExpired ==
    [][(spc # "wait" /\ spc' = "wait") =>
         /\ reservations' = reservations
         /\ \A e \in EnvIds :
              ~(/\ environments'[e].status = StatusReserved
                /\ ReservationsOf(e) # {}
                /\ \A i \in ReservationsOf(e) :
                     /\ ~(ParseTime(reservations[i].endTime) > now')
                     /\ (\A j \in ReservationsOf(e) : j <= i) => ~EndTimeRewritten(i))]_vars

\* C14: a Release, by its holder, of a reservation whose endTime has passed
\* is answered with success and leaves the reservation's environment FREE.
C14_ReleaseOfExpired ==
    [][(/\ AnswersOp("Release")
        /\ resp'.req.id \in ResIds
        /\ reservations[resp'.req.id].username = resp'.req.username
        /\ ~IsActive(resp'.req.id)) =>
          /\ resp'.status = 200
          /\ environments'[reservations[resp'.req.id].environmentId].status = StatusFree]_vars

\* A reservation was released after the endTime it was created with.
C14_Witness ==
    /\ resp.status = 200 /\ resp.req.op = "Release"
    /\ resp.req.id \in ResIds
    /\ ParseTime(reservations[resp.req.id].endTime) >
         ParseTime(reservations[resp.req.id].startTime) + Minutes(MinDurationMins)
    /\ environments[reservations[resp.req.id].environmentId].status = StatusFree

\* C15: a Release whose reservation id names no record fails with the
\* not-found error and leaves both tables as they were.
C15_ReleaseUnknownId ==
    [][(AnswersOp("Release") /\ resp'.req.id \notin ResIds) =>
          /\ resp'.status # 200
          /\ resp'.error = "reservation not found"
          /\ reservations' = reservations
          /\ environments' = environments]_vars

\* An unknown id was refused while a reservation holds an environment.
C15_Witness ==
    /\ resp.req.op = "Release" /\ resp.error = "reservation not found"
    /\ resp.req.id \notin ResIds
    /\ \E i \in ResIds : /\ IsActive(i)
                          /\ environments[reservations[i].environmentId].status = StatusReserved

\* C16: a Reserve with a valid body whose environment id names no
\* environment is answered with not-found at once and writes nothing.
C16_ReserveUnknownEnvironment ==
    [][/\ (/\ AnswersOp("Reserve")
            /\ ValidationError(resp'.req.environmentId, resp'.req.durationMins,
                                resp'.req.feature) = ""
            /\ resp'.req.environmentId \notin EnvIds) =>
              /\ resp'.status = 404
              /\ resp'.error = "Environment not found"
              /\ reservations' = reservations
              /\ environments' = environments
       /\ \A p \in Procs :
            pc'[p] = "reserve_get" => req'[p].environmentId \in EnvIds]_vars

\* env-9 was asked for while env-1 exists.
C16_Witness ==
    /\ resp.req.op = "Reserve" /\ resp.status = 404
    /\ resp.req.environmentId \notin EnvIds
    /\ EnvIds # {}

\* C17: a Reserve that fails because the environment is not FREE, when the
\* request reads the status or when its transaction commits, is answered
\* with the conflict (400) and never with 500.
C17_ConflictIs400 ==
    [][(/\ AnswersOp("Reserve")
        /\ resp'.status # 200
        /\ resp'.req.environmentId \in EnvIds
        /\ environments[resp'.req.environmentId].status # StatusFree) =>
          resp'.status = 400]_vars

\* C18: a Release of an unknown reservation id is answered 404, a Release
\* asked by another user than the holder 403, and neither of them 500.
C18_ReleaseFailureClasses ==
    [][AnswersOp("Release") =>
         /\ resp'.req.id \notin ResIds => resp'.status = 404
         /\ (/\ resp'.req.id \in ResIds
              /\ reservations[resp'.req.id].username # resp'.req.username) =>
                resp'.status = 403]_vars

\* C19: the status of an environment is FREE or RESERVED; it goes from FREE
\* to RESERVED only in the commit of a successful Reserve on that
\* environment, from RESERVED to FREE only in the commit of a successful
\* Release of one of its reservations or in a step of the expiry goroutine,
\* and the answer to a Reserve on a RESERVED environment changes no status.
C19_StatusStateMachine ==
    [][/\ \A e \in DOMAIN environments' :
            environments'[e].status \in {StatusFree, StatusReserved}
       /\ \A e \in EnvIds :
            /\ (/\ environments[e].status = StatusFree
                 /\ environments'[e].status = StatusReserved) =>
                   \E p \in Procs : /\ ReserveCommits(p)
                                     /\ req[p].environmentId = e
                                     /\ resp'.proc = p /\ resp'.status = 200
            /\ (/\ environments[e].status = StatusReserved
                 /\ environments'[e].status = StatusFree) =>
                   \/ \E p \in Procs : /\ ReleaseCommits(p)
                                        /\ reservations[req[p].id].environmentId = e
                                        /\ resp'.proc = p /\ resp'.status = 200
                   \/ /\ spc = "update"
                      /\ activeReservations' # activeReservations
                      /\ pc' = pc
            /\ (/\ AnswersOp("Reserve")
                 /\ resp'.req.environmentId = e
                 /\ environments[e].status = StatusReserved) =>
                   environments' = environments]_vars

\* The expiry goroutine has freed the environment of a reservation that
\* was never released.
C19_Witness ==
    /\ Len(reservations) = 1
    /\ ~EndTimeRewritten(1)
    /\ ~IsActive(1)
    /\ spc = "wait"
    /\ environments[reservations[1].environmentId].status = StatusFree

\* C20: GetActiveReservations answers with exactly the reservations whose
\* endTime is greater than the time of the call, and writes nothing.
C20_ActiveListIsExact ==
    [][AnswersOp("GetActiveReservations") =>
         /\ resp'.status = 200
         /\ resp'.data = {i \in ResIds : IsActive(i)}
         /\ reservations' = reservations
         /\ environments' = environments]_vars

\* The reservations d attached to environment e: none exactly when no
\* reservation with endTime > now references e, and otherwise reservations
\* of e with endTime > now.
Paired(e, d) == (d = {} <=> ActiveOf(e) = {}) /\ d \subseteq ActiveOf(e)

\* C21: GetEnvironment and ListEnvironments attach to each environment they
\* return its active reservation: none exactly when no reservation with
\* endTime > now references it, otherwise one of those reservations.
C21_PairedWithActive ==
    [][/\ (AnswersOp("GetEnvironment") /\ resp'.status = 200) =>
              Paired(resp'.req.environmentId, resp'.data)
       /\ AnswersOp("ListEnvironments") =>
              \A e \in DOMAIN resp'.req.listed :
                Paired(e, {i \in resp'.data : reservations[i].environmentId = e})]_vars

\* C22: no step removes a reservation record or changes its id (its place
\* in the table), environmentId, username or startTime; a record changes
\* only in the commit of a successful Release of that record, and then in
\* its endTime alone.
C22_ReservationsAreHistory ==
    [][/\ Len(reservations') >= Len(reservations)
       /\ \A i \in ResIds :
            /\ reservations'[i].environmentId = reservations[i].environmentId
            /\ reservations'[i].username = reservations[i].username
            /\ reservations'[i].startTime = reservations[i].startTime
            /\ reservations'[i] # reservations[i] =>
                  /\ \E p \in Procs : /\ ReleaseCommits(p) /\ req[p].id = i
                                       /\ resp'.proc = p /\ resp'.status = 200
                  /\ reservations'[i] =
                       [reservations[i] EXCEPT !.endTime = reservations'[i].endTime]]_vars

\* A released record and a record whose time ran out are both still in the
\* table, behind a third reservation.
C22_Witness ==
    /\ Len(reservations) = 3
    /\ \E i, j \in ResIds :
         /\ i # j
         /\ EndTimeRewritten(i) /\ ~IsActive(i)
         /\ ~EndTimeRewritten(j) /\ ~IsActive(j)
         /\ reservations[i].startTime # reservations[i].endTime

\* C23: the commit of a Release of reservation x does not leave FREE an
\* environment that another reservation with endTime > now references.
C23_ReleaseSparesOtherHolder ==
    [][\A p \in Procs : ReleaseCommits(p) =>
          LET e == req[p].environmentId
          IN ActiveOf(e) \ {req[p].id} # {} =>
               environments'[e].status = StatusReserved]_vars

\* C24: a status write of the expiry goroutine does not turn FREE an
\* environment that a reservation with endTime > now references when the
\* write commits.
C24_SweeperSparesActive ==
    [][(spc = "update" /\ activeReservations' # activeReservations) =>
          \A e \in EnvIds :
            (/\ environments[e].status = StatusReserved
             /\ environments'[e].status = StatusFree) => ActiveOf(e) = {}]_vars

\* C25: when a cycle of the expiry goroutine is over, at most one of the
\* reservations it still had to handle, the one whose update failed, has an
\* environment that is not FREE.
C25_FailureDoesNotAbortCycle ==
    [][(spc = "update" /\ spc' # "update") =>
          Cardinality({r \in activeReservations :
                         environments'[r.environmentId].status # StatusFree}) <= 1]_vars

\* C26: after a cycle ended with the error of an update for environment e,
\* a later cycle comes to update e again, unless e is FREE by then.
C26_FailedSweepIsRetried ==
    \A e \in PoolIds :
      (spc = "failed" /\ \E r \in activeReservations : r.environmentId = e)
        ~> (\/ e \in EnvIds /\ environments[e].status = StatusFree
            \/ spc = "update" /\ \E r \in activeReservations : r.environmentId = e)

\* The step is one of the expiry goroutine.
SweeperSteps == spc' # spc \/ activeReservations' # activeReservations

\* C27: a step of the expiry goroutine leaves the Reservations table as it
\* is, and the only thing it writes in the Environments table is the status
\* FREE of the environment of a reservation it found expired.
C27_SweeperOnlyReadsLedger ==
    [][SweeperSteps =>
         /\ reservations' = reservations
         /\ DOMAIN environments' = EnvIds
         /\ \A e \in EnvIds :
              environments'[e] # environments[e] =>
                /\ spc = "update"
                /\ \E r \in activeReservations \ activeReservations' :
                     r.environmentId = e /\ After(now, ParseTime(r.endTime))
                /\ environments'[e] = [environments[e] EXCEPT !.status = StatusFree]]_vars

\* A cycle has freed the environment of an expired reservation and is over;
\* the record is as it was created.
C27_Witness ==
    /\ spc = "wait" /\ activeReservations = {}
    /\ \E i \in ResIds :
         /\ ~EndTimeRewritten(i) /\ ~IsActive(i)
         /\ ReservationsOf(reservations[i].environmentId) = {i}
         /\ environments[reservations[i].environmentId] =
              [status |-> StatusFree, createdBy |-> "bob"]
    /\ \A p \in Procs : pc[p] = "idle"

\* C28: a status write of the expiry goroutine is never refused, whatever
\* the status of the environment, and leaves it FREE; a Release that
\* commits while a cycle is under way succeeds and leaves the environment
\* FREE: in either order of the two commits the environment ends FREE.
C28_ReleaseAndSweepConverge ==
    /\ [](spc = "update" => ENABLED SweepUpdate)
    /\ [][/\ (spc = "update" /\ activeReservations' # activeReservations) =>
                /\ spc' \in {"update", "wait"}
                /\ \A r \in activeReservations \ activeReservations' :
                     environments'[r.environmentId].status = StatusFree
           /\ \A p \in Procs :
                (ReleaseCommits(p) /\ spc # "wait") =>
                   /\ resp'.proc = p /\ resp'.status = 200
                   /\ environments'[req[p].environmentId].status = StatusFree]_vars

\* A Release has committed on the environment that the cycle under way is
\* about to update: the update finds it FREE.
C28_Witness ==
    /\ resp.status = 200 /\ resp.req.op = "Release"
    /\ spc = "update"
    /\ \E r \in activeReservations : r.environmentId = resp.req.environmentId
    /\ environments[resp.req.environmentId].status = StatusFree

\* C29: the endTime of a reservation never increases.
C29_EndTimeNeverIncreases ==
    [][\A i \in ResIds :
         ParseTime(reservations'[i].endTime) <= ParseTime(reservations[i].endTime)]_vars

\* C30: an environment appears only in the answer to a successful
\* CreateEnvironment, one at a time, with status FREE, createdBy the caller
\* and an id no environment and no reservation had; the other environments
\* stay as they are; and the Reserve on an environment that has never been
\* reserved succeeds.
C30_CreatedFree ==
    [][/\ \A e \in DOMAIN environments' \ EnvIds :
            /\ AnswersOp("CreateEnvironment") /\ resp'.status = 200
            /\ environments'[e] = [status |-> StatusFree, createdBy |-> resp'.req.username]
            /\ RoleOf[resp'.req.username] = RoleAdmin
            /\ reservations' = reservations
            /\ ReservationsOf(e) = {}
            /\ \A x \in EnvIds : environments'[x] = environments[x]
       /\ (AnswersOp("CreateEnvironment") /\ resp'.status = 200) =>
            Cardinality(DOMAIN environments') = Cardinality(EnvIds) + 1
       /\ (/\ AnswersOp("Reserve")
            /\ resp'.req.environmentId \in EnvIds
            /\ ReservationsOf(resp'.req.environmentId) = {}) =>
              /\ resp'.status = 200
              /\ environments'[resp'.req.environmentId].status = StatusReserved]_vars

\* The second environment, created while the first was RESERVED, has just
\* been reserved for the first time.
C30_Witness ==
    /\ resp.status = 200 /\ resp.req.op = "Reserve"
    /\ Cardinality(EnvIds) = 2
    /\ Len(reservations) = 2
    /\ reservations[1].environmentId # reservations[2].environmentId
    /\ reservations[2].environmentId = resp.req.environmentId
    /\ \A e \in EnvIds : environments[e] = [status |-> StatusReserved, createdBy |-> "bob"]

\* The step leaves alone every environment but e, every reservation of
\* another environment, and adds no reservation of another environment.
OnlyTouches(e) ==
    /\ DOMAIN environments' = EnvIds
    /\ \A x \in EnvIds \ {e} : environments'[x] = environments[x]
    /\ Len(reservations') >= Len(reservations)
    /\ \A i \in 1..Len(reservations') :
         IF i \in ResIds
           THEN reservations[i].environmentId # e => reservations'[i] = reservations[i]
         ELSE reservations'[i].environmentId = e

\* C31: the commit of a Reserve on e, the commit of a Release of a
\* reservation of e and a status write of the expiry goroutine for e change
\* no other environment and no reservation of another environment; and a
\* Reserve on e succeeds exactly when e itself is FREE as it is answered.
C31_EnvironmentsIndependent ==
    [][/\ \A p \in Procs :
            /\ ReserveCommits(p) => OnlyTouches(req[p].environmentId)
            /\ ReleaseCommits(p) => OnlyTouches(reservations[req[p].id].environmentId)
       /\ (spc = "update" /\ activeReservations' # activeReservations) =>
            \E r \in activeReservations \ activeReservations' : OnlyTouches(r.environmentId)
       /\ (AnswersOp("Reserve") /\ resp'.req.environmentId \in EnvIds) =>
            (resp'.status = 200 <=>
               environments[resp'.req.environmentId].status = StatusFree)]_vars

\* A reservation of one environment has just been released while a
\* reservation holds the other: the other is RESERVED as before.
C31_Witness ==
    /\ resp.status = 200 /\ resp.req.op = "Release"
    /\ environments[resp.req.environmentId].status = StatusFree
    /\ \E i \in ResIds :
         /\ reservations[i].environmentId # resp.req.environmentId
         /\ IsActive(i) /\ ~EndTimeRewritten(i)
         /\ environments[reservations[i].environmentId].status = StatusReserved

\* C32: no environment of one ListEnvironments result has the status FREE
\* together with a current reservation.
C32_ListIsConsistent ==
    [][AnswersOp("ListEnvironments") =>
         \A e \in DOMAIN resp'.req.listed :
           ~(/\ resp'.req.listed[e] = StatusFree
             /\ \E i \in resp'.data : reservations[i].environmentId = e)]_vars

\* C33: every reservation record has startTime <= endTime.
C33_StartNotAfterEnd ==
    \A i \in ResIds :
      ParseTime(reservations[i].startTime) <= ParseTime(reservations[i].endTime)

\* C34: a Reserve with an invalid body gets a validation error, whether its
\* environment is unknown, FREE or RESERVED; one with a valid body and an
\* unknown environment gets not-found; a Release of an unknown id gets
\* not-found whoever asks; the ownership error goes to requests on existing
\* records only, and no Release reaches its write before the check passed.
C34_ErrorPrecedence ==
    [][/\ AnswersOp("Reserve") =>
            LET r == resp'.req
                invalid == \/ r.environmentId = "" \/ r.feature = ""
                           \/ r.durationMins < 10 \/ r.durationMins > 4320
            IN /\ invalid => /\ resp'.status = 400
                              /\ resp'.error \in ValidationMessages
                              /\ reservations' = reservations
                              /\ environments' = environments
               /\ (~invalid /\ r.environmentId \notin EnvIds) =>
                     resp'.status = 404 /\ resp'.error = "Environment not found"
               /\ resp'.error = "Environment is already reserved" =>
                     ~invalid /\ r.environmentId \in EnvIds
       /\ AnswersOp("Release") =>
            /\ resp'.req.id \notin ResIds => resp'.error = "reservation not found"
            /\ resp'.error = "you can only release your own reservations" =>
                  /\ resp'.req.id \in ResIds
                  /\ reservations[resp'.req.id].username # resp'.req.username
                  /\ reservations' = reservations
                  /\ environments' = environments
       /\ \A p \in Procs :
            pc'[p] = "release_commit" =>
              /\ req'[p].id \in ResIds
              /\ reservations[req'[p].id].username = req'[p].username]_vars

\* A Reserve with an out-of-range duration on the RESERVED environment was
\* refused for its duration, not for the conflict.
C34_Witness ==
    /\ resp.req.op = "Reserve" /\ resp.req.durationMins = 9
    /\ resp.req.feature # ""
    /\ resp.error = "Duration must be at least 10 minutes"
    /\ resp.req.environmentId \in EnvIds
    /\ environments[resp.req.environmentId].status = StatusReserved
    /\ Len(reservations) > 0

====
